---- MODULE Spec2Model ----
(***************************************************************************)
(* Model of the generic CRUD service: the Connection Manager (app/db.py    *)
(* for the embedded engine, app/db_snowflake.py for the warehouse), the    *)
(* asynchronous facade over the worker pool, and the dynamic table router  *)
(* (app/routes.py).                                                        *)
(*                                                                         *)
(* A row is a function from column name to value.  Values are typed by     *)
(* column (integers for id/number/product_id/is_active, text for           *)
(* name/value); SQL NULL / Python None is NULL in an integer column and     *)
(* NULLTEXT in a text column.  Requests supply values of the column's own  *)
(* type, so the engine stores them unchanged.                              *)
(***************************************************************************)
EXTENDS Integers, Sequences, FiniteSets, TLC

VARIABLES
    backend,   \* DB_BACKEND, fixed at process start
    written,   \* the database table this run's requests address
    db,        \* engine state: tables, items_seq (embedded), autoinc (warehouse)
    last,      \* the last request served by the router and its response
    task,      \* concurrent client tasks: the call each awaits and its result
    queue,     \* work queue of the ThreadPoolExecutor, oldest first
    worker,    \* worker threads: the task being run, the thread-local connection
    env,       \* environment of the warehouse manager, read at import
    probe,     \* one connectivity check: the call, its attempts, the /ready response
    conns,     \* connections opened so far and each thread's cached one (_local.conn)
    executor   \* the executor's work items and whether it was shut down

vars == <<backend, written, db, last, task, queue, worker, env, probe, conns, executor>>
pool == <<task, queue, worker>>

(***************************************************************************)
(* Bounds.                                                                 *)
(***************************************************************************)
MaxSeq == 2        \* last value the id sequence / auto-increment hands out
MaxCallerId == 2   \* largest id a request names
MaxRows == 2       \* rows alive at the same time, over all tables
NumTasks == 2      \* client tasks issuing requests concurrently
MaxWorkers == 2    \* worker threads of the pool (EXAMPLE_FASTAPI_MAX_WORKERS)

(***************************************************************************)
(* Schema and static configuration.                                        *)
(***************************************************************************)
NULL == -1
NULLTEXT == "NULL"

Backends == {"duckdb", "snowflake"}
DbTables == {"items", "products"}
TableNames == DbTables \cup {"ghost"}      \* "ghost" names no table of the database

Columns(t) ==
    IF t = "products" THEN {"id", "product_id", "is_active"}
    ELSE {"id", "name", "value", "number"}

NotNullColumns(t) == IF t = "items" THEN {"name"} ELSE {}

Null(c) == IF c \in {"name", "value"} THEN NULLTEXT ELSE NULL

\* values a request body supplies for a column (no body names `number`)
ColumnValues(c) ==
    CASE c = "id" -> 1..MaxCallerId
      [] c = "name" -> {"a", "b"}
      [] c = "value" -> {"v"}
      [] c = "product_id" -> {1, 2}
      [] c = "is_active" -> {0, 1}
      [] OTHER -> {}

table_config ==
    [items    |-> [order_by |-> "id", where |-> ""],
     products |-> [order_by |-> "product_id", where |-> "is_active = 1"]]

(***************************************************************************)
(* Python dictionaries.                                                    *)
(***************************************************************************)
EmptyDict == <<>>

\* d.update(f)
DictUpdate(d, f) ==
    [k \in (DOMAIN d) \cup (DOMAIN f) |-> IF k \in DOMAIN f THEN f[k] ELSE d[k]]

\* every JSON object over the columns S
RECURSIVE FieldsOver(_)
FieldsOver(S) ==
    IF S = {} THEN {EmptyDict}
    ELSE LET c == CHOOSE x \in S : TRUE
         IN  {(c :> v) @@ f : v \in ColumnValues(c), f \in FieldsOver(S \ {c})}

\* request bodies of POST: any mix of name and value, a caller-chosen id next to
\* a name, a complete product; "ghost" stands for any table the database lacks
CreateBodies(t) ==
    CASE t = "items" ->
            FieldsOver({}) \cup FieldsOver({"name"}) \cup FieldsOver({"value"})
            \cup FieldsOver({"name", "value"})
            \cup {f \in FieldsOver({"id", "name"}) : f.name = "a"}
      [] t = "products" -> FieldsOver({"product_id", "is_active"})
      [] OTHER -> {[name |-> "a"]}

\* request bodies of PUT
UpdateBodies(t) ==
    CASE t = "items" ->
            FieldsOver({}) \cup FieldsOver({"name"}) \cup FieldsOver({"value"})
            \cup FieldsOver({"name", "value"}) \cup FieldsOver({"id"})
      [] t = "products" -> FieldsOver({"is_active"})
      [] OTHER -> {[name |-> "a"]}

(***************************************************************************)
(* Results of a Connection Manager call.                                   *)
(***************************************************************************)
Ok(v) == [kind |-> "ok", val |-> v, msg |-> ""]
NoneRes == [kind |-> "none", val |-> EmptyDict, msg |-> ""]
Raise(m) == [kind |-> "exc", val |-> EmptyDict, msg |-> m]

\* what the engine does to one call: answer, raise, or answer the id /
\* sequence query with no row
Faults == {"none", "error", "noid"}

ConnError == "Connection Error: engine unavailable"

(***************************************************************************)
(* SQL statements as the engine executes them.                             *)
(***************************************************************************)
Satisfies(row, where) ==
    \/ where = ""
    \/ where = "is_active = 1" /\ row.is_active = 1

FullRow(t, vals) ==
    [c \in Columns(t) |-> IF c \in DOMAIN vals THEN vals[c] ELSE Null(c)]

\* error of INSERT INTO t (cols) VALUES (...), "" when the statement succeeds
InsertCheck(d, t, dup, vals) ==
    IF t \notin DbTables THEN "Catalog Error: table does not exist"
    ELSE IF dup THEN "Binder Error: duplicate column name in INSERT"
    ELSE IF DOMAIN vals = {} THEN "SQL compilation error: syntax error"
    ELSE IF \E c \in NotNullColumns(t) : c \notin DOMAIN vals
         THEN "Constraint Error: NOT NULL constraint failed"
    ELSE IF \E r \in d.tables[t] : r.id = vals.id
         THEN "Constraint Error: duplicate key"
    ELSE ""

InsertStmt(d, t, dup, vals) ==
    LET e == InsertCheck(d, t, dup, vals)
    IN  IF e # "" THEN [err |-> e, db |-> d]
        ELSE [err |-> "", db |-> [d EXCEPT !.tables[t] = @ \cup {FullRow(t, vals)}]]

\* an id taken from the rows instead of the sequence: SELECT max(id) + 1
NextvalFromMax(d) ==
    LET ids == UNION {{r.id : r \in d.tables[t]} : t \in DbTables}
    IN  [val |-> IF ids = {} THEN 1 ELSE 1 + (CHOOSE m \in ids : \A i \in ids : i <= m),
         db |-> d]

\* SELECT nextval('items_seq')
Nextval(d) == [val |-> d.items_seq, db |-> [d EXCEPT !.items_seq = @ + 1]]

\* a SELECT without its ORDER BY clause: the rows in any order
Unordered(rows, ob) ==
    LET n == Cardinality(rows)
    IN  {s \in [1..n -> rows] : \A i, j \in 1..n : i # j => s[i] # s[j]}

\* ORDER BY ob: ascending, NULL after every value, ties in any order
SortKey(row, ob) == IF row[ob] = NULL THEN MaxSeq + MaxCallerId + 100 ELSE row[ob]

OrderedBy(rows, ob) ==
    LET n == Cardinality(rows)
    IN  {s \in [1..n -> rows] :
            /\ \A i, j \in 1..n : i # j => s[i] # s[j]
            /\ \A i \in 1..n : i < n => SortKey(s[i], ob) <= SortKey(s[i + 1], ob)}

SelectError(t, ob) ==
    IF t \notin DbTables THEN "Catalog Error: table does not exist"
    ELSE IF ob \notin Columns(t) THEN "Binder Error: column not found"
    ELSE ""

(***************************************************************************)
(* Connection Manager: the blocking primitives.  Each returns the result   *)
(* of the call and the engine state it leaves.                             *)
(***************************************************************************)
\* _fetch_all_items_sync: every answer the engine may give (ties unordered)
FetchAllItemsSync(d, t, ob, fault) ==
    IF fault = "error" THEN {Raise(ConnError)}
    ELSE IF SelectError(t, ob) # "" THEN {Raise(SelectError(t, ob))}
    ELSE {Ok(s) : s \in OrderedBy(d.tables[t], ob)}

\* _fetch_all_items_with_where_sync
FetchAllItemsWithWhereSync(d, t, ob, where, fault) ==
    IF fault = "error" THEN {Raise(ConnError)}
    ELSE IF SelectError(t, ob) # "" THEN {Raise(SelectError(t, ob))}
    ELSE {Ok(s) : s \in OrderedBy({r \in d.tables[t] : Satisfies(r, where)}, ob)}

\* _fetch_item_sync: SELECT * ... WHERE id = ?, fetchone
FetchItemSync(d, t, item_id, ob, fault) ==
    IF fault = "error" THEN Raise(ConnError)
    ELSE IF SelectError(t, ob) # "" THEN Raise(SelectError(t, ob))
    ELSE LET hit == {r \in d.tables[t] : r.id = item_id}
         IN  IF hit = {} THEN NoneRes ELSE Ok(CHOOSE r \in hit : TRUE)

\* the returned id taken from a second read of the sequence
DuckCreateInsertSecondRead(d, t, item_id, fields) ==
    LET ins == InsertStmt(d, t, "id" \in DOMAIN fields,
                          DictUpdate("id" :> item_id, fields))
    IN  IF ins.err # "" THEN [res |-> Raise(ins.err), db |-> ins.db]
        ELSE [res |-> Ok(DictUpdate("id" :> item_id + 1, fields)), db |-> ins.db]

\* embedded _create_item_sync, after the sequence value is known:
\* columns = ["id"] + keys, INSERT, result = {"id": item_id}; result.update(fields)
DuckCreateInsert(d, t, item_id, fields) ==
    LET ins == InsertStmt(d, t, "id" \in DOMAIN fields,
                          DictUpdate("id" :> item_id, fields))
    IN  IF ins.err # "" THEN [res |-> Raise(ins.err), db |-> ins.db]
        ELSE [res |-> Ok(DictUpdate("id" :> item_id, fields)), db |-> ins.db]

\* embedded _create_item_sync
DuckCreateItemSync(d, t, fields, fault) ==
    IF fault = "error" THEN [res |-> Raise(ConnError), db |-> d]
    ELSE IF fault = "noid"
         THEN [res |-> Raise("Failed to generate next item id from sequence."), db |-> d]
    ELSE LET nv == Nextval(d) IN DuckCreateInsert(nv.db, t, nv.val, fields)

\* warehouse INSERT: the engine assigns the id unless the caller names the column
SnowInsert(d, t, fields) ==
    LET draws == t \in DbTables /\ DOMAIN fields # {} /\ "id" \notin DOMAIN fields
        auto  == IF draws THEN d.autoinc[t] ELSE NULL
        d1    == IF draws THEN [d EXCEPT !.autoinc[t] = @ + 1] ELSE d
        vals  == IF draws THEN ("id" :> auto) @@ fields ELSE fields
        ins   == InsertStmt(d1, t, FALSE, vals)
    IN  [err |-> ins.err, db |-> ins.db, auto |-> auto]

\* warehouse _create_item_sync, after SELECT LAST_INSERT_ID() answered item_id
SnowCreateResult(item_id, fields) == Ok(DictUpdate("id" :> item_id, fields))

\* warehouse _create_item_sync
SnowCreateItemSync(d, t, fields, fault) ==
    IF fault = "error" THEN [res |-> Raise(ConnError), db |-> d]
    ELSE LET ins == SnowInsert(d, t, fields)
         IN  IF ins.err # "" THEN [res |-> Raise(ins.err), db |-> ins.db]
             ELSE [res |-> SnowCreateResult(IF fault = "noid" THEN NULL ELSE ins.auto,
                                            fields),
                   db |-> ins.db]

CreateItemSync(b, d, t, fields, fault) ==
    IF b = "duckdb" THEN DuckCreateItemSync(d, t, fields, fault)
    ELSE SnowCreateItemSync(d, t, fields, fault)

\* an UPDATE whose WHERE clause is lost: the SET clause reaches every row
UpdateItemSyncEveryRow(d, t, item_id, fields, fault) ==
    IF fault = "error" THEN [res |-> Raise(ConnError), db |-> d]
    ELSE IF t \notin DbTables
         THEN [res |-> Raise("Catalog Error: table does not exist"), db |-> d]
    ELSE IF DOMAIN fields = {}
         THEN [res |-> Raise("Parser Error: syntax error"), db |-> d]
    ELSE LET hit == {r \in d.tables[t] : r.id = item_id}
             upd == {DictUpdate(r, fields) : r \in d.tables[t]}
         IN  [res |-> IF Cardinality(hit) = 0 THEN NoneRes
                      ELSE Ok(DictUpdate("id" :> item_id, fields)),
              db |-> [d EXCEPT !.tables[t] = upd]]

\* an UPDATE that counts the matching row but never writes it
UpdateItemSyncNoWrite(d, t, item_id, fields, fault) ==
    IF fault = "error" THEN [res |-> Raise(ConnError), db |-> d]
    ELSE IF t \notin DbTables
         THEN [res |-> Raise("Catalog Error: table does not exist"), db |-> d]
    ELSE IF DOMAIN fields = {}
         THEN [res |-> Raise("Parser Error: syntax error"), db |-> d]
    ELSE LET hit == {r \in d.tables[t] : r.id = item_id}
         IN  [res |-> IF Cardinality(hit) = 0 THEN NoneRes
                      ELSE Ok(DictUpdate("id" :> item_id, fields)),
              db |-> d]

\* _update_item_sync: UPDATE t SET k = ?... WHERE id = ?, then the change count
UpdateItemSync(d, t, item_id, fields, fault) ==
    IF fault = "error" THEN [res |-> Raise(ConnError), db |-> d]
    ELSE IF t \notin DbTables
         THEN [res |-> Raise("Catalog Error: table does not exist"), db |-> d]
    ELSE IF DOMAIN fields = {}
         THEN [res |-> Raise("Parser Error: syntax error"), db |-> d]
    ELSE LET hit == {r \in d.tables[t] : r.id = item_id}
             rest == d.tables[t] \ hit
             upd == {DictUpdate(r, fields) : r \in hit}
         IN  IF \E r \in upd : \E o \in rest : o.id = r.id
             THEN [res |-> Raise("Constraint Error: duplicate key"), db |-> d]
             ELSE [res |-> IF Cardinality(hit) = 0 THEN NoneRes
                           ELSE Ok(DictUpdate("id" :> item_id, fields)),
                   db |-> [d EXCEPT !.tables[t] = rest \cup upd]]

\* _delete_item_sync: DELETE FROM t WHERE id = ?, then the change count
DeleteItemSync(d, t, item_id, fault) ==
    IF fault = "error" THEN [res |-> Raise(ConnError), db |-> d]
    ELSE IF t \notin DbTables
         THEN [res |-> Raise("Catalog Error: table does not exist"), db |-> d]
    ELSE LET hit == {r \in d.tables[t] : r.id = item_id}
         IN  [res |-> Ok(Cardinality(hit) > 0),
              db |-> [d EXCEPT !.tables[t] = @ \ hit]]

(***************************************************************************)
(* Dynamic table router.  A handler body either returns (status, body) or  *)
(* raises; the handler's own `except Exception` clause and then the        *)
(* framework turn that into the response.                                  *)
(***************************************************************************)
Return(status, body) ==
    [raised |-> FALSE, cls |-> "", status |-> status, body |-> body, msg |-> ""]

\* an exception raised by the Connection Manager or the facade
DbError(m) ==
    [raised |-> TRUE, cls |-> "Error", status |-> 0, body |-> EmptyDict, msg |-> m]

\* raise HTTPException(status_code=404, detail="Item not found")
NotFound ==
    [raised |-> TRUE, cls |-> "HTTPException", status |-> 404, body |-> EmptyDict,
     msg |-> "404: Item not found"]

\* classes that `except Exception` catches: HTTPException derives from Exception
ExceptionSubclasses == {"Error", "HTTPException"}

\* a handler whose clause reads `except HTTPException`
ExceptHTTPExceptionOnly(out) ==
    IF out.raised /\ out.cls = "HTTPException"
    THEN [raised |-> TRUE, cls |-> "HTTPException", status |-> 500, body |-> EmptyDict,
          msg |-> out.msg]
    ELSE out

\* except Exception as e: raise HTTPException(status_code=500, detail={"error": str(e)})
ExceptException(out) ==
    IF out.raised /\ out.cls \in ExceptionSubclasses
    THEN [raised |-> TRUE, cls |-> "HTTPException", status |-> 500, body |-> EmptyDict,
          msg |-> out.msg]
    ELSE out

\* what leaves the endpoint: the returned body, the HTTPException's status and
\* detail, or an unhandled fault
Response(out) ==
    IF ~out.raised
    THEN [status |-> out.status, body |-> out.body, detail |-> "", unhandled |-> FALSE]
    ELSE IF out.cls = "HTTPException"
    THEN [status |-> out.status, body |-> EmptyDict, detail |-> out.msg, unhandled |-> FALSE]
    ELSE [status |-> 500, body |-> EmptyDict, detail |-> "", unhandled |-> TRUE]

\* a lookup that never finds the key: the caller's default wins
DictGetDefault(d, k, default) == default

\* d.get(k, default)
DictGet(d, k, default) == IF k \in DOMAIN d THEN d[k] ELSE default

\* table_config.get(table_name, {})
ConfigGet(t) == IF t \in DOMAIN table_config THEN table_config[t] ELSE EmptyDict

\* the head of the list, whatever its id
FirstOfList(items, item_id) == IF items = <<>> THEN NoneRes ELSE Ok(items[1])

\* next((i for i in items if i["id"] == item_id), None)
FirstWithId(items, item_id) ==
    LET idx == {i \in DOMAIN items : items[i].id = item_id}
    IN  IF idx = {} THEN NoneRes
        ELSE Ok(items[CHOOSE i \in idx : \A j \in idx : i <= j])

NoRequest ==
    [op |-> "none", table |-> "", item_id |-> 0, fields |-> EmptyDict, fault |-> "none",
     order_by |-> "", prim |-> "", kind |-> "", val |-> EmptyDict, msg |-> "",
     status |-> 0, body |-> EmptyDict, detail |-> "", unhandled |-> FALSE]

\* the record of a served request: the call, the manager's result, the response
Served(op, t, item_id, fields, fault, ob, prim, r, out) ==
    LET resp == Response(ExceptException(out))
    IN  [op |-> op, table |-> t, item_id |-> item_id, fields |-> fields, fault |-> fault,
         order_by |-> ob, prim |-> prim, kind |-> r.kind, val |-> r.val, msg |-> r.msg,
         status |-> resp.status, body |-> resp.body, detail |-> resp.detail,
         unhandled |-> resp.unhandled]

Ids(d, t) == {r.id : r \in d.tables[t]}

TotalRows(d) == Cardinality(d.tables["items"]) + Cardinality(d.tables["products"])

\* GET /api/{table_name}/
list_items(t, order_by, fault) ==
    LET config == ConfigGet(t)
        ob == DictGet(config, "order_by", order_by)
        where == DictGet(config, "where", "")
        prim == IF where # "" THEN "fetch_all_items_with_where" ELSE "fetch_all_items"
        answers == IF where # "" THEN FetchAllItemsWithWhereSync(db, t, ob, where, fault)
                   ELSE FetchAllItemsSync(db, t, ob, fault)
    IN  /\ \E r \in answers :
              last' = Served("list", t, 0, EmptyDict, fault, ob, prim, r,
                             IF r.kind = "exc" THEN DbError(r.msg) ELSE Return(200, r.val))
        /\ UNCHANGED <<conns, executor, env, probe, backend, written, db, pool>>

\* GET /api/{table_name}/{item_id}
get_item(t, item_id, order_by, fault) ==
    LET config == ConfigGet(t)
        ob == DictGet(config, "order_by", order_by)
        where == DictGet(config, "where", "")
        prim == IF where # "" THEN "fetch_all_items_with_where" ELSE "fetch_item"
        answers == IF where # ""
                   THEN {IF l.kind = "exc" THEN l ELSE FirstWithId(l.val, item_id) :
                            l \in FetchAllItemsWithWhereSync(db, t, ob, where, fault)}
                   ELSE {FetchItemSync(db, t, item_id, ob, fault)}
    IN  /\ \E r \in answers :
              last' = Served("get", t, item_id, EmptyDict, fault, ob, prim, r,
                             IF r.kind = "exc" THEN DbError(r.msg)
                             ELSE IF r.kind = "none" THEN NotFound
                             ELSE Return(200, r.val))
        /\ UNCHANGED <<conns, executor, env, probe, backend, written, db, pool>>

\* POST /api/{table_name}/
create_item(t, fields, fault) ==
    /\ TotalRows(db) < MaxRows
    /\ db.items_seq <= MaxSeq
    /\ \A x \in DbTables : db.autoinc[x] <= MaxSeq
    /\ LET c == CreateItemSync(backend, db, t, fields, fault)
       IN  /\ db' = c.db
           /\ last' = Served("create", t, 0, fields, fault, "", "create_item", c.res,
                             IF c.res.kind = "exc" THEN DbError(c.res.msg)
                             ELSE Return(201, c.res.val))
    /\ UNCHANGED <<conns, executor, env, probe, backend, written, pool>>

\* PUT /api/{table_name}/{item_id}
update_item(t, item_id, fields, fault) ==
    /\ LET u == UpdateItemSync(db, t, item_id, fields, fault)
       IN  /\ db' = u.db
           /\ last' = Served("update", t, item_id, fields, fault, "", "update_item", u.res,
                             IF u.res.kind = "exc" THEN DbError(u.res.msg)
                             ELSE IF u.res.kind = "none" THEN NotFound
                             ELSE Return(200, u.res.val))
    /\ UNCHANGED <<conns, executor, env, probe, backend, written, pool>>

\* DELETE /api/{table_name}/{item_id}
delete_item(t, item_id, fault) ==
    /\ LET x == DeleteItemSync(db, t, item_id, fault)
       IN  /\ db' = x.db
           /\ last' = Served("delete", t, item_id, EmptyDict, fault, "", "delete_item", x.res,
                             IF x.res.kind = "exc" THEN DbError(x.res.msg)
                             ELSE IF ~x.res.val THEN NotFound
                             ELSE Return(204, EmptyDict))
    /\ UNCHANGED <<conns, executor, env, probe, backend, written, pool>>

(***************************************************************************)
(* Specification: requests served one at a time.                           *)
(***************************************************************************)
OrderByParams == {"id", "number"}

Tasks == 1..NumTasks
Workers == 1..MaxWorkers

NewTask ==
    [pc |-> "new", op |-> "", fields |-> EmptyDict, item_id |-> NULL,
     created |-> NoneRes, got |-> NoneRes, overlapped |-> FALSE]

\* an engine fault is injected into one representative call of each operation
FaultTable == written
FaultBody == IF written = "items" THEN [name |-> "a"] ELSE [is_active |-> 1]

\* the warehouse manager's module globals: which of the required parameters
\* are unset, LOGIN_TYPE, which credentials are set, whether the key file opens
RequiredVars ==
    {"SNOWFLAKE_USER", "SNOWFLAKE_ACCOUNT", "SNOWFLAKE_DATABASE", "SNOWFLAKE_WAREHOUSE"}

CompleteEnv ==
    [missing |-> {}, login_type |-> "password", password |-> TRUE,
     private_key_path |-> FALSE, oauth_token |-> FALSE, key_file |-> FALSE]

\* no thread has opened a connection yet: _local is empty on every thread; the
\* bootstrap connection of __init__ has been closed
NoConns == [local |-> [w \in Workers |-> 0], opened |-> <<>>, bootstrap |-> "closed"]

\* ThreadPoolExecutor(max_workers=...) right after construction: nothing was
\* submitted, shutdown was not called
NoExecutor == [items |-> <<>>, shutdown |-> "open", at_close |-> {}]

\* no connectivity check has been called yet
NoProbe ==
    [pc |-> "idle", via |-> "", mgr |-> "", retries |-> 0, attempt |-> 0, log |-> <<>>,
     result |-> "none", timed_out |-> FALSE, status |-> 0, body |-> ""]

Init ==
    /\ backend \in Backends
    /\ env = CompleteEnv
    /\ probe = NoProbe
    /\ conns = NoConns
    /\ executor = NoExecutor
    /\ db = [tables |-> [t \in DbTables |-> {}], items_seq |-> 1,
             autoinc |-> [t \in DbTables |-> 1]]
    /\ written \in DbTables
    /\ last = NoRequest
    /\ task = [r \in Tasks |-> NewTask]
    /\ queue = <<>>
    /\ worker = [w \in Workers |-> [req |-> 0, conn |-> FALSE, last_insert_id |-> NULL]]

\* table names of the requests of one run: one table of the database and one
\* name the database lacks
Addressed == {written, "ghost"}

ListRequest ==
    \/ \E t \in Addressed, ob \in OrderByParams : list_items(t, ob, "none")
    \/ list_items(FaultTable, "id", "error")

GetRequest ==
    \/ \E t \in Addressed, i \in 1..MaxCallerId, ob \in OrderByParams :
          get_item(t, i, ob, "none")
    \/ get_item(FaultTable, 1, "id", "error")

CreateRequest ==
    \/ \E t \in Addressed : \E fields \in CreateBodies(t) :
          create_item(t, fields, "none")
    \/ \E f \in Faults \ {"none"} : create_item(FaultTable, FaultBody, f)

UpdateRequest ==
    \/ \E t \in Addressed, i \in 1..MaxCallerId : \E fields \in UpdateBodies(t) :
          update_item(t, i, fields, "none")
    \/ update_item(FaultTable, 1, FaultBody, "error")

DeleteRequest ==
    \/ \E t \in Addressed, i \in 1..MaxCallerId : delete_item(t, i, "none")
    \/ delete_item(FaultTable, 1, "error")

Next ==
    \/ ListRequest
    \/ GetRequest
    \/ CreateRequest
    \/ UpdateRequest
    \/ DeleteRequest

Spec == Init /\ [][Next]_vars

(***************************************************************************)
(* Specification of the worker pool: client tasks create items             *)
(* concurrently and then read them back (tests/test_concurrency.py).  A    *)
(* call runs on a worker thread one SQL statement at a time; statements of *)
(* different workers interleave freely.                                    *)
(***************************************************************************)
PoolTable == "items"

\* bodies the concurrent clients post: complete rows without an id
PoolBodies == FieldsOver({"name"})

\* await db_manager.create_item(table, **fields): run() hands the call to the pool
SubmitCreate(r, fields) ==
    /\ task[r].pc = "new"
    /\ task' = [task EXCEPT ![r].pc = "queued", ![r].op = "create", ![r].fields = fields]
    /\ queue' = Append(queue, r)
    /\ UNCHANGED <<conns, executor, env, probe, backend, written, db, last, worker>>

\* await db_manager.fetch_item(table, id) for the id Create returned
SubmitGet(r) ==
    /\ task[r].pc = "done" /\ task[r].op = "create" /\ task[r].created.kind = "ok"
    /\ task' = [task EXCEPT ![r].pc = "queued", ![r].op = "get"]
    /\ queue' = Append(queue, r)
    /\ UNCHANGED <<conns, executor, env, probe, backend, written, db, last, worker>>

\* an idle worker thread takes the oldest queued call
WorkerTake(w) ==
    /\ worker[w].req = 0
    /\ queue # <<>>
    /\ worker' = [worker EXCEPT ![w].req = Head(queue)]
    /\ task' = [task EXCEPT ![Head(queue)].pc = "stmt1"]
    /\ queue' = Tail(queue)
    /\ UNCHANGED <<conns, executor, env, probe, backend, written, db, last>>

MidCreate(r) == task[r].op = "create" /\ task[r].pc = "stmt2"

\* _create_item_sync, first statement on the thread's connection:
\* SELECT nextval('items_seq') (embedded) or the INSERT (warehouse)
CreateFirstStmt(w) ==
    LET r == worker[w].req IN
    /\ r # 0 /\ task[r].op = "create" /\ task[r].pc = "stmt1"
    /\ IF backend = "duckdb"
       THEN LET nv == Nextval(db)
            IN  /\ db' = nv.db
                /\ task' = [task EXCEPT ![r].pc = "stmt2", ![r].item_id = nv.val]
                /\ worker' = [worker EXCEPT ![w].conn = TRUE]
       ELSE LET ins == SnowInsert(db, PoolTable, task[r].fields)
            IN  /\ db' = ins.db
                /\ IF ins.err # ""
                   THEN /\ task' = [task EXCEPT ![r].pc = "done",
                                                ![r].created = Raise(ins.err)]
                        /\ worker' = [worker EXCEPT ![w].conn = TRUE, ![w].req = 0]
                   ELSE /\ task' = [task EXCEPT ![r].pc = "stmt2",
                                        ![r].overlapped = \E o \in Tasks : MidCreate(o)]
                        /\ worker' = [worker EXCEPT ![w].conn = TRUE,
                                                    ![w].last_insert_id = ins.auto]
    /\ UNCHANGED <<conns, executor, env, probe, backend, written, last, queue>>

\* _create_item_sync, second statement and result: the INSERT (embedded) or
\* SELECT LAST_INSERT_ID() on the same connection (warehouse)
CreateSecondStmt(w) ==
    LET r == worker[w].req IN
    /\ r # 0 /\ task[r].op = "create" /\ task[r].pc = "stmt2"
    /\ IF backend = "duckdb"
       THEN LET c == DuckCreateInsert(db, PoolTable, task[r].item_id, task[r].fields)
            IN  /\ db' = c.db
                /\ task' = [task EXCEPT ![r].pc = "done", ![r].created = c.res,
                                  ![r].overlapped = \E o \in Tasks \ {r} : MidCreate(o)]
       ELSE /\ db' = db
            /\ task' = [task EXCEPT ![r].pc = "done",
                              ![r].item_id = worker[w].last_insert_id,
                              ![r].created = SnowCreateResult(worker[w].last_insert_id,
                                                              task[r].fields)]
    /\ worker' = [worker EXCEPT ![w].req = 0]
    /\ UNCHANGED <<conns, executor, env, probe, backend, written, last, queue>>

\* _fetch_item_sync on a worker thread
GetStmt(w) ==
    LET r == worker[w].req IN
    /\ r # 0 /\ task[r].op = "get" /\ task[r].pc = "stmt1"
    /\ task' = [task EXCEPT ![r].pc = "done",
                      ![r].got = FetchItemSync(db, PoolTable, task[r].created.val.id,
                                               "id", "none")]
    /\ worker' = [worker EXCEPT ![w].conn = TRUE, ![w].req = 0]
    /\ UNCHANGED <<conns, executor, env, probe, backend, written, db, last, queue>>

NextPool ==
    \/ \E r \in Tasks : \E fields \in PoolBodies : SubmitCreate(r, fields)
    \/ \E r \in Tasks : SubmitGet(r)
    \/ \E w \in Workers : WorkerTake(w)
    \/ \E w \in Workers : CreateFirstStmt(w)
    \/ \E w \in Workers : CreateSecondStmt(w)
    \/ \E w \in Workers : GetStmt(w)

InitPool == Init /\ written = PoolTable

SpecPool == InitPool /\ [][NextPool]_vars

(***************************************************************************)
(* Properties of the router and the Connection Manager.                    *)
(***************************************************************************)
\* the served request was answered by a working engine on a table that exists
Healthy(l) == l.fault = "none" /\ l.table \in DbTables

\* C1: Get-one answers 200 with the record when a row with the requested id
\* exists and 404 when none exists, never another status, on both paths
C1_GetOneStatus ==
    (last.op = "get" /\ Healthy(last)) =>
        IF \E r \in db.tables[last.table] : r.id = last.item_id
        THEN last.status = 200 /\ last.body \in db.tables[last.table]
             /\ last.body.id = last.item_id
        ELSE last.status = 404

\* C2: Update on an id that matches no row returns None, the router answers
\* 404, and the tables are left as they were
C2_UpdateMissing ==
    [][(/\ last'.op = "update" /\ Healthy(last') /\ DOMAIN last'.fields # {}
        /\ last'.item_id \notin Ids(db, last'.table))
       => (last'.kind = "none" /\ last'.status = 404 /\ db'.tables = db.tables)]_vars

\* C3: Delete of an existing id removes the row and returns true (204); Delete
\* of an id with no row returns false (404) and changes nothing; after either
\* call no row has that id
C3_DeleteTwice ==
    [][(last'.op = "delete" /\ Healthy(last'))
       => /\ last'.item_id \notin Ids(db', last'.table)
          /\ IF last'.item_id \in Ids(db, last'.table)
             THEN last'.kind = "ok" /\ last'.val /\ last'.status = 204
             ELSE last'.kind = "ok" /\ ~last'.val /\ last'.status = 404
                  /\ db'.tables = db.tables]_vars

\* C4: an exception raised by the Connection Manager or the facade during any
\* handler is answered with 500 carrying str(exception); none leaves unhandled
C4_ExceptionsBecome500 ==
    /\ ~last.unhandled
    /\ last.kind = "exc" => (last.status = 500 /\ last.detail = last.msg)

C4_Witness ==
    /\ last.kind = "exc" /\ last.status = 500
    /\ last.msg = "Failed to generate next item id from sequence."

\* C6: a successful Create returns a strictly positive integer id that no
\* earlier row of the table held; in particular not the id of the row that the
\* Delete served just before it removed
C6_FreshPositiveId ==
    [][(/\ last'.op = "create" /\ last'.kind = "ok" /\ Healthy(last')
        /\ last.op = "delete" /\ last.kind = "ok" /\ last.table = last'.table)
       => (last'.val.id > 0 /\ (last.val => last'.val.id # last.item_id))]_vars

EngineNextId(b, d, t) == IF b = "duckdb" THEN d.items_seq ELSE d.autoinc[t]

\* C8: a successful Create returns the supplied fields plus the key id holding
\* the engine-assigned identifier, also when the body itself names id
C8_CreateReturnsFieldsPlusId ==
    [][(last'.op = "create" /\ last'.kind = "ok" /\ Healthy(last'))
       => /\ DOMAIN last'.val = DOMAIN last'.fields \cup {"id"}
          /\ \A k \in DOMAIN last'.fields : last'.val[k] = last'.fields[k]
          /\ last'.val.id = EngineNextId(backend, db, last'.table)]_vars

\* C9: Update of an existing row with new values for fields other than id
\* succeeds, and the next Get-one of the id returns exactly those values
C9_UpdateReadBack ==
    [][(/\ last'.op = "update" /\ Healthy(last') /\ DOMAIN last'.fields # {}
        /\ "id" \notin DOMAIN last'.fields
        /\ last'.item_id \in Ids(db, last'.table))
       => /\ last'.kind = "ok"
          /\ LET g == FetchItemSync(db', last'.table, last'.item_id, "id", "none")
             IN  /\ g.kind = "ok"
                 /\ g.val.id = last'.item_id
                 /\ \A k \in DOMAIN last'.fields : g.val[k] = last'.fields[k]]_vars

C9_Witness ==
    /\ last.op = "update" /\ last.kind = "ok" /\ last.fields = [name |-> "b"]
    /\ \E r \in db.tables["items"] : r.id = last.item_id /\ r.name = "b"

\* the list is in ascending order of column ob (NULL keys are not compared)
Ascending(s, ob) ==
    \A i, j \in DOMAIN s :
        (i < j /\ s[i][ob] # NULL /\ s[j][ob] # NULL) => s[i][ob] <= s[j][ob]

NoDuplicates(s) == \A i, j \in DOMAIN s : i # j => s[i] # s[j]

Elements(s) == {s[i] : i \in DOMAIN s}

\* C10 as stated: List returns exactly one record per row of the table, in
\* ascending order of the effective order_by column
C10_ListAllRows ==
    (last.op = "list" /\ Healthy(last)) =>
        /\ last.kind = "ok" /\ last.status = 200
        /\ Elements(last.val) = db.tables[last.table]
        /\ NoDuplicates(last.val)
        /\ Ascending(last.val, last.order_by)

\* C10 amended: List returns exactly one record per row of the table that
\* satisfies the table's configured filter (every row when no filter is
\* configured), in ascending order of the effective order_by column; no row
\* yields the empty list with status 200
C10_ListVisibleRows ==
    (last.op = "list" /\ Healthy(last)) =>
        LET where == DictGet(ConfigGet(last.table), "where", "")
            visible == {r \in db.tables[last.table] : Satisfies(r, where)}
        IN  /\ last.kind = "ok" /\ last.status = 200
            /\ Elements(last.val) = visible
            /\ NoDuplicates(last.val)
            /\ Ascending(last.val, last.order_by)
            /\ last.body = last.val
            /\ visible = {} => last.val = <<>>

C10_Witness ==
    /\ last.op = "list" /\ last.kind = "ok" /\ last.table = "products"
    /\ Len(last.val) = 2 /\ last.val[1].product_id < last.val[2].product_id
    /\ last.val[1].id > last.val[2].id

Created(r) == task[r].op = "get" \/ (task[r].op = "create" /\ task[r].pc = "done")

\* C5: Create calls running concurrently on the pool all succeed with pairwise
\* distinct ids under every interleaving, every written row is there, and the
\* Get-one that follows returns the record with the id Create returned
C5_ConcurrentCreates ==
    /\ \A r \in Tasks : Created(r) =>
          /\ task[r].created.kind = "ok"
          /\ task[r].created.val.id > 0
          /\ \E row \in db.tables[PoolTable] :
                /\ row.id = task[r].created.val.id
                /\ \A k \in DOMAIN task[r].fields : row[k] = task[r].fields[k]
    /\ \A r, o \in Tasks : (r # o /\ Created(r) /\ Created(o)) =>
          task[r].created.val.id # task[o].created.val.id
    /\ \A r \in Tasks : (task[r].op = "get" /\ task[r].pc = "done") =>
          /\ task[r].got.kind = "ok"
          /\ task[r].got.val.id = task[r].created.val.id
          /\ \A k \in DOMAIN task[r].fields : task[r].got.val[k] = task[r].fields[k]

C5_Witness ==
    /\ \A r \in Tasks : task[r].op = "get" /\ task[r].pc = "done"
    /\ \E r \in Tasks : task[r].overlapped
    /\ Cardinality(db.tables[PoolTable]) = NumTasks

\* C11: after any sequence of Create, Update and Delete calls every row of a
\* table has a non-null id that the engine assigned (a value its sequence or
\* auto-increment has already handed out), and no two rows share an id
C11_EngineAssignedIds ==
    \A t \in DbTables :
        /\ \A r \in db.tables[t] :
              r.id # NULL /\ r.id >= 1 /\ r.id < EngineNextId(backend, db, t)
        /\ \A r, o \in db.tables[t] : r # o => r.id # o.id

(***************************************************************************)
(* Specification of the connectivity check and the readiness probe         *)
(* (app/health.py).  /ready always runs the check of the embedded manager: *)
(* health.py imports app.db whatever DB_BACKEND says.  The check is also   *)
(* called directly, on either manager.                                     *)
(***************************************************************************)
MaxRetries == 3    \* largest retry count a check is called with

\* what one `SELECT 1` attempt does: row (1,), no such row, an engine error
\* (duckdb.Error / a connector error), any other exception
Attempts == {"one", "norow", "engine_error", "other_error"}

\* the except clause of the retry loop: `except duckdb.Error` (embedded),
\* `except Exception` (warehouse)
Swallowed(mgr) ==
    IF mgr = "duckdb" THEN {"engine_error"} ELSE {"engine_error", "other_error"}

\* GET /ready: db.db.run(db.db.check_connection, retries, delay) under wait_for
ready(n) ==
    /\ probe.pc = "idle"
    /\ probe' = [probe EXCEPT !.pc = "queued", !.via = "ready", !.mgr = "duckdb",
                              !.retries = n]
    /\ UNCHANGED <<conns, executor, env, backend, written, db, last, pool>>

\* a worker thread of the pool starts the queued check
ReadyTake ==
    /\ probe.pc = "queued"
    /\ probe' = [probe EXCEPT !.pc = "loop"]
    /\ UNCHANGED <<conns, executor, env, backend, written, db, last, pool>>

\* manager.check_connection(retries, delay) called on a thread
check_connection(mgr, n) ==
    /\ probe.pc = "idle"
    /\ probe' = [probe EXCEPT !.pc = "loop", !.via = "call", !.mgr = mgr, !.retries = n]
    /\ UNCHANGED <<conns, executor, env, backend, written, db, last, pool>>

\* one pass of `for attempt in range(retries)` up to the sleep
CheckAttempt(o) ==
    /\ probe.pc = "loop" /\ probe.attempt < probe.retries
    /\ probe' =
          IF o = "one"
          THEN [probe EXCEPT !.log = Append(@, o), !.result = "true", !.pc = "done"]
          ELSE IF o \in {"engine_error", "other_error"} /\ o \notin Swallowed(probe.mgr)
          THEN [probe EXCEPT !.log = Append(@, o), !.result = "raised", !.pc = "done"]
          ELSE IF probe.attempt + 1 < probe.retries
          THEN [probe EXCEPT !.log = Append(@, o), !.pc = "sleep"]
          ELSE [probe EXCEPT !.log = Append(@, o), !.attempt = @ + 1,
                             !.result = "false", !.pc = "done"]
    /\ UNCHANGED <<conns, executor, env, backend, written, db, last, pool>>

\* range(retries) is empty: return False
CheckExhausted ==
    /\ probe.pc = "loop" /\ probe.attempt >= probe.retries
    /\ probe' = [probe EXCEPT !.result = "false", !.pc = "done"]
    /\ UNCHANGED <<conns, executor, env, backend, written, db, last, pool>>

\* time.sleep(delay), then the next pass
CheckSleep ==
    /\ probe.pc = "sleep"
    /\ probe' = [probe EXCEPT !.log = Append(@, "sleep"), !.attempt = @ + 1, !.pc = "loop"]
    /\ UNCHANGED <<conns, executor, env, backend, written, db, last, pool>>

\* asyncio.wait_for gives up before the future is done: ok = False; a check
\* still in the queue is cancelled, a running one goes on in its thread
ReadyTimeout ==
    /\ probe.via = "ready" /\ probe.status = 0
    /\ probe.pc \in {"queued", "loop", "sleep"}
    /\ probe' = [probe EXCEPT !.timed_out = TRUE, !.status = 503, !.body = "unavailable",
                              !.pc = IF @ = "queued" THEN "cancelled" ELSE @]
    /\ UNCHANGED <<conns, executor, env, backend, written, db, last, pool>>

\* the future is done in time: ok is the check's value; an exception of the
\* check is caught by nothing in ready()
ReadyRespond ==
    /\ probe.via = "ready" /\ probe.status = 0 /\ probe.pc = "done"
    /\ probe' =
          CASE probe.result = "true" -> [probe EXCEPT !.status = 200, !.body = "ready"]
            [] probe.result = "false" ->
                  [probe EXCEPT !.status = 503, !.body = "unavailable"]
            [] OTHER -> [probe EXCEPT !.status = 500, !.body = "Internal Server Error"]
    /\ UNCHANGED <<conns, executor, env, backend, written, db, last, pool>>

NextReady ==
    \/ \E n \in 0..MaxRetries : ready(n)
    \/ ReadyTake
    \/ \E m \in Backends, n \in 0..MaxRetries : check_connection(m, n)
    \/ \E o \in Attempts : CheckAttempt(o)
    \/ CheckExhausted
    \/ CheckSleep
    \/ ReadyTimeout
    \/ ReadyRespond

SpecReady == Init /\ [][NextReady]_vars

\* C12: /ready answers 200 "ready" when the check reported success in time,
\* 503 "unavailable" when the check returned false or the call timed out, and
\* never any other status
C12_ReadyStatus ==
    (probe.via = "ready" /\ probe.status # 0) =>
        \/ /\ probe.status = 200 /\ probe.body = "ready"
           /\ probe.result = "true" /\ ~probe.timed_out
        \/ /\ probe.status = 503 /\ probe.body = "unavailable"
           /\ (probe.result = "false" \/ probe.timed_out)

\* the SELECT 1 attempts of the log, in order
Selects(log) == SelectSeq(log, LAMBDA e : e # "sleep")

\* C13: check_connection(N) makes at most N attempts, sleeps only between two
\* attempts, returns true at the first successful attempt and makes no more,
\* and returns false, never raising, when all N attempts fail or raise
C13_CheckConnection ==
    LET log == probe.log
        sel == Selects(log)
    IN  /\ Len(sel) <= probe.retries
        /\ \A i \in DOMAIN log :
              log[i] = "sleep" => (i > 1 /\ log[i - 1] # "sleep"
                                   /\ (probe.pc = "done" => i < Len(log)))
        /\ \A i \in DOMAIN sel : sel[i] = "one" => i = Len(sel)
        /\ probe.pc = "done" =>
              /\ probe.result \in {"true", "false"}
              /\ probe.result = "true" <=> (sel # <<>> /\ sel[Len(sel)] = "one")
              /\ probe.result = "false" => Len(sel) = probe.retries

\* C14: the record a successful Update(id, F) returns equals the row that a
\* Get-one of that id returns right afterwards, the columns F did not mention
\* included
C14_UpdateReturnsRow ==
    (last.op = "update" /\ last.kind = "ok" /\ Healthy(last)) =>
        FetchItemSync(db, last.table, last.item_id, "id", "none") = Ok(last.val)

\* C15: Update(id, F) changes only the columns named in F of the row with that
\* id: every other column of that row, every other row of the table, every
\* other table and the id generators are after the call as they were before
C15_UpdateFrame ==
    [][(last'.op = "update" /\ Healthy(last'))
       => LET t == last'.table
              old == db.tables[t]
              new == db'.tables[t]
              hit == {r \in old : r.id = last'.item_id}
              others == old \ hit
          IN  /\ \A x \in DbTables \ {t} : db'.tables[x] = db.tables[x]
              /\ db'.items_seq = db.items_seq /\ db'.autoinc = db.autoinc
              /\ others \subseteq new
              /\ Cardinality(new) = Cardinality(old)
              /\ \A r \in hit : \A n \in new \ others :
                    \A c \in Columns(t) \ DOMAIN last'.fields : n[c] = r[c]]_vars

C15_Witness ==
    /\ last.op = "update" /\ last.kind = "ok" /\ last.fields = [name |-> "b"]
    /\ Cardinality(db.tables["items"]) = 2
    /\ \E r \in db.tables["items"] :
          r.id = last.item_id /\ r.name = "b" /\ r.value = "v"
    /\ \E r \in db.tables["items"] : r.id # last.item_id /\ r.name = "a"

\* C16: List orders by the table's configured order_by whenever the table has a
\* config entry with one and by the query parameter only otherwise; it calls
\* the filtered primitive exactly when the configured filter is non-empty and
\* the unfiltered primitive otherwise, one primitive per request
C16_ListConfigWins ==
    last.op = "list" =>
        LET t == last.table
            configured == t \in DOMAIN table_config
        IN  /\ IF configured /\ "order_by" \in DOMAIN table_config[t]
               THEN last.order_by = table_config[t].order_by
               ELSE last.order_by \in OrderByParams
            /\ last.prim \in {"fetch_all_items_with_where", "fetch_all_items"}
            /\ last.prim = "fetch_all_items_with_where"
                  <=> (configured /\ "where" \in DOMAIN table_config[t]
                       /\ table_config[t].where # "")

C16_Witness ==
    /\ last.op = "list" /\ last.kind = "ok" /\ last.table = "products"
    /\ last.order_by = "product_id" /\ last.prim = "fetch_all_items_with_where"
    /\ Len(last.val) = 1 /\ Cardinality(db.tables["products"]) = 2

\* C17: Get-one on a table with a configured filter fetches the filtered list
\* and answers with the record of the requested id found in it: a row that
\* the filter hides is reported not found, a row that passes it is returned
\* with 200; on a table with no filter Get-one fetches directly by id
C17_GetOneThroughFilter ==
    (last.op = "get" /\ Healthy(last)) =>
        LET where == DictGet(ConfigGet(last.table), "where", "")
            hit == {r \in db.tables[last.table] :
                       Satisfies(r, where) /\ r.id = last.item_id}
        IN  /\ last.prim = IF where # "" THEN "fetch_all_items_with_where"
                           ELSE "fetch_item"
            /\ IF hit # {}
               THEN last.kind = "ok" /\ last.status = 200 /\ last.body \in hit
               ELSE last.kind = "none" /\ last.detail = NotFound.msg

C17_Witness ==
    /\ last.op = "get" /\ last.table = "products" /\ last.kind = "none"
    /\ last.prim = "fetch_all_items_with_where"
    /\ \E r \in db.tables["products"] : r.id = last.item_id /\ r.is_active = 0
    /\ \E r \in db.tables["products"] : r.id # last.item_id /\ r.is_active = 1

\* C18: when the engine does not answer the sequence / last-inserted-id query
\* with an identifier, Create fails with an error and returns no record; no
\* Create ever returns a record whose id is null
C18_NoIdNoRecord ==
    last.op = "create" =>
        /\ last.fault = "noid" => (last.kind = "exc" /\ last.status = 500)
        /\ last.kind = "ok" => last.val.id # NULL

(***************************************************************************)
(* Specification of connection acquisition on the warehouse backend        *)
(* (db_snowflake.py, _get_conn): every blocking primitive starts by        *)
(* fetching the thread-local connection, which is opened on first use from *)
(* the module's environment.                                               *)
(***************************************************************************)
LoginTypes == {"password", "keypair", "oauth", "saml"}

Envs ==
    {e \in [missing : {{}, RequiredVars} \cup {{v} : v \in RequiredVars},
            login_type : LoginTypes,
            password : BOOLEAN, private_key_path : BOOLEAN, oauth_token : BOOLEAN,
            key_file : BOOLEAN] :
        \* at most one credential is set; a key file needs its path
        /\ Cardinality({c \in {"password", "private_key_path", "oauth_token"} : e[c]}) <= 1
        /\ e.key_file => e.private_key_path}

\* a connection is opened without looking at the environment
SnowGetConnUnchecked(e) == ""

\* _get_conn with no connection on the thread: the error it raises before
\* snowflake.connector.connect is called, "" when connect is reached
SnowGetConn(e) ==
    IF e.missing # {} THEN "Missing required env vars"
    ELSE CASE e.login_type = "password" ->
                 IF ~e.password
                 THEN "SNOWFLAKE_PASSWORD env var required for password login" ELSE ""
           [] e.login_type = "keypair" ->
                 IF ~e.private_key_path
                 THEN "SNOWFLAKE_PRIVATE_KEY_PATH env var required for keypair login"
                 ELSE IF ~e.key_file THEN "Failed to read private key file" ELSE ""
           [] e.login_type = "oauth" ->
                 IF ~e.oauth_token
                 THEN "SNOWFLAKE_OAUTH_TOKEN env var required for oauth login" ELSE ""
           [] OTHER -> "Unknown LOGIN_TYPE"

\* the primitive a handler calls first
FirstPrimitive(op, t) ==
    CASE op = "list" ->
            IF DictGet(ConfigGet(t), "where", "") # "" THEN "fetch_all_items_with_where"
            ELSE "fetch_all_items"
      [] op = "get" ->
            IF DictGet(ConfigGet(t), "where", "") # "" THEN "fetch_all_items_with_where"
            ELSE "fetch_item"
      [] op = "create" -> "create_item"
      [] op = "update" -> "update_item"
      [] OTHER -> "delete_item"

Operations == {"list", "get", "create", "update", "delete"}

\* worker thread w opens its connection: the checks pass and connect is called
AcquireConn(w) ==
    /\ backend = "snowflake"
    /\ ~worker[w].conn
    /\ SnowGetConn(env) = ""
    /\ worker' = [worker EXCEPT ![w].conn = TRUE]
    /\ UNCHANGED <<conns, executor, env, probe, backend, written, db, last, task, queue>>

\* a request whose primitive runs on thread w and fails in _get_conn: the
\* RuntimeError travels through run() to the handler's except clause
refused_request(w, op, t) ==
    /\ backend = "snowflake"
    /\ ~worker[w].conn
    /\ SnowGetConn(env) # ""
    /\ last' = Served(op, t, IF op \in {"get", "update", "delete"} THEN 1 ELSE 0,
                      IF op \in {"create", "update"} THEN FaultBody ELSE EmptyDict,
                      "config", DictGet(ConfigGet(t), "order_by", "id"),
                      FirstPrimitive(op, t), Raise(SnowGetConn(env)),
                      DbError(SnowGetConn(env)))
    /\ UNCHANGED <<conns, executor, env, probe, backend, written, db, pool>>

\* a request served by a thread that holds a connection
connected_request ==
    /\ \E w \in Workers : worker[w].conn
    /\ \/ list_items(written, "id", "none")
       \/ get_item(written, 1, "id", "none")
       \/ create_item(written, FaultBody, "none")
       \/ update_item(written, 1, FaultBody, "none")
       \/ delete_item(written, 1, "none")

NextConn ==
    \/ \E w \in Workers : AcquireConn(w)
    \/ \E w \in Workers, op \in Operations, t \in DbTables : refused_request(w, op, t)
    \/ connected_request

InitConn ==
    /\ backend = "snowflake"
    /\ env \in Envs
    /\ probe = NoProbe
    /\ conns = NoConns
    /\ executor = NoExecutor
    /\ db = [tables |-> [t \in DbTables |-> {}], items_seq |-> 1,
             autoinc |-> [t \in DbTables |-> 1]]
    /\ written = "items"
    /\ last = NoRequest
    /\ task = [r \in Tasks |-> NewTask]
    /\ queue = <<>>
    /\ worker = [w \in Workers |-> [req |-> 0, conn |-> FALSE, last_insert_id |-> NULL]]

SpecConn == InitConn /\ [][NextConn]_vars

\* a required parameter is unset, the credential of the selected strategy is
\* unset, or LOGIN_TYPE selects no strategy
ConfigIncomplete(e) ==
    \/ e.missing # {}
    \/ e.login_type = "password" /\ ~e.password
    \/ e.login_type = "keypair" /\ ~e.private_key_path
    \/ e.login_type = "oauth" /\ ~e.oauth_token
    \/ e.login_type \notin {"password", "keypair", "oauth"}

ConfigErrors ==
    {"Missing required env vars",
     "SNOWFLAKE_PASSWORD env var required for password login",
     "SNOWFLAKE_PRIVATE_KEY_PATH env var required for keypair login",
     "SNOWFLAKE_OAUTH_TOKEN env var required for oauth login",
     "Unknown LOGIN_TYPE"}

\* C19: on the warehouse backend with an incomplete configuration no thread
\* ever opens a connection, and every CRUD request is answered with 500
\* carrying the configuration error; nothing is written
C19_ConfigErrorIs500 ==
    (backend = "snowflake" /\ ConfigIncomplete(env)) =>
        /\ \A w \in Workers : ~worker[w].conn
        /\ \A t \in DbTables : db.tables[t] = {}
        /\ last.op # "none" =>
              /\ last.kind = "exc" /\ last.msg \in ConfigErrors
              /\ last.status = 500 /\ last.detail = last.msg /\ ~last.unhandled

C19_Witness ==
    /\ env.login_type = "oauth" /\ env.missing = {} /\ env.password
    /\ last.op = "create" /\ last.status = 500
    /\ last.detail = "SNOWFLAKE_OAUTH_TOKEN env var required for oauth login"

(***************************************************************************)
(* Specification of the facade's run(): the call is handed to the pool by  *)
(* loop.run_in_executor and awaited.  A call is a blocking primitive that  *)
(* returns a value or raises.                                              *)
(***************************************************************************)
MaxCalls == 2      \* calls of run() one client task makes, one after the other

\* the primitive handed to run(); it stands for any of them
RunFns == {"_delete_item_sync"}

\* what the blocking primitive does when executed: its value or its exception
RunOutcomes == {Ok(TRUE), Ok(FALSE), Raise(ConnError)}

NewCall ==
    [pc |-> "new", fn |-> "", calls |-> 0, runs |-> 0, returned |-> NoneRes,
     result |-> NoneRes]

\* the threads of this manager's executor
PoolThreads == DOMAIN worker

\* run() when every thread is busy refuses the call: the caller waits for a
\* work item that was never queued
RunReject(r, fn) ==
    /\ executor.shutdown = "open"
    /\ task[r].pc \in {"new", "resumed"}
    /\ task[r].calls < MaxCalls
    /\ task' = [task EXCEPT ![r].pc = "queued", ![r].fn = fn, ![r].calls = @ + 1,
                            ![r].returned = NoneRes, ![r].result = NoneRes]
    /\ queue' = IF \A w \in PoolThreads : worker[w].req # 0 THEN queue
                ELSE Append(queue, r)
    /\ UNCHANGED <<conns, executor, env, probe, backend, written, db, last, worker>>

\* await self.run(fn, ...): the work item enters the executor's queue
run(r, fn) ==
    /\ executor.shutdown = "open"
    /\ task[r].pc \in {"new", "resumed"}
    /\ task[r].calls < MaxCalls
    /\ task' = [task EXCEPT ![r].pc = "queued", ![r].fn = fn, ![r].calls = @ + 1,
                            ![r].returned = NoneRes, ![r].result = NoneRes]
    /\ queue' = Append(queue, r)
    /\ UNCHANGED <<conns, executor, env, probe, backend, written, db, last, worker>>

\* an idle worker thread takes the oldest work item and calls fn
RunTake(w) ==
    /\ worker[w].req = 0
    /\ queue # <<>>
    /\ worker' = [worker EXCEPT ![w].req = Head(queue)]
    /\ task' = [task EXCEPT ![Head(queue)].pc = "running", ![Head(queue)].runs = @ + 1]
    /\ queue' = Tail(queue)
    /\ UNCHANGED <<conns, executor, env, probe, backend, written, db, last>>

\* a facade that submits the work item again when fn raised
RunFinishRetry(w, o) ==
    LET r == worker[w].req IN
    /\ r # 0 /\ task[r].pc = "running"
    /\ IF o.kind = "exc" /\ task[r].runs < MaxCalls + 1
       THEN /\ task' = [task EXCEPT ![r].pc = "queued"]
            /\ queue' = Append(queue, r)
       ELSE /\ task' = [task EXCEPT ![r].pc = "set", ![r].returned = o]
            /\ queue' = queue
    /\ worker' = [worker EXCEPT ![w].req = 0]
    /\ UNCHANGED <<conns, executor, env, probe, backend, written, db, last>>

\* fn returns or raises on the worker thread: the future gets that outcome
RunFinish(w, o) ==
    LET r == worker[w].req IN
    /\ r # 0 /\ task[r].pc = "running"
    /\ task' = [task EXCEPT ![r].pc = "set", ![r].returned = o]
    /\ queue' = queue
    /\ worker' = [worker EXCEPT ![w].req = 0]
    /\ UNCHANGED <<conns, executor, env, probe, backend, written, db, last>>

\* the awaiting caller resumes with the future's value or exception
RunAwait(r) ==
    /\ task[r].pc = "set"
    /\ task' = [task EXCEPT ![r].pc = "resumed", ![r].result = task[r].returned]
    /\ UNCHANGED <<conns, executor, env, probe, backend, written, db, last, queue, worker>>

NextRun ==
    \/ \E r \in Tasks, fn \in RunFns : run(r, fn)
    \/ \E w \in Workers : RunTake(w)
    \/ \E w \in Workers : \E o \in RunOutcomes : RunFinish(w, o)
    \/ \E r \in Tasks : RunAwait(r)

InitRun ==
    /\ backend \in Backends
    /\ env = CompleteEnv
    /\ probe = NoProbe
    /\ conns = NoConns
    /\ executor = NoExecutor
    /\ db = [tables |-> [t \in DbTables |-> {}], items_seq |-> 1,
             autoinc |-> [t \in DbTables |-> 1]]
    /\ written = "items"
    /\ last = NoRequest
    /\ task = [r \in Tasks |-> NewCall]
    /\ queue = <<>>
    /\ worker = [w \in Workers |-> [req |-> 0, conn |-> FALSE, last_insert_id |-> NULL]]

SpecRun == InitRun /\ [][NextRun]_vars

\* worker threads keep taking work, primitives terminate, the event loop
\* resumes a caller whose future is done
SpecRunFair ==
    /\ SpecRun
    /\ WF_vars(\E w \in Workers : RunTake(w))
    /\ WF_vars(\E w \in Workers : \E o \in RunOutcomes : RunFinish(w, o))
    /\ WF_vars(\E r \in Tasks : RunAwait(r))

\* the calls of task r so far were each executed once, the current one not yet
\* if it still waits in the queue
RunOnce(r) ==
    /\ task[r].runs = IF task[r].pc = "queued" THEN task[r].calls - 1 ELSE task[r].calls
    /\ task[r].pc = "resumed" =>
          /\ task[r].result.kind = task[r].returned.kind
          /\ task[r].result.kind # "none"
          /\ task[r].result.msg = task[r].returned.msg
          /\ task[r].result.val = task[r].returned.val

InboundHeaders == {"absent", "", "client-a", "client-b"}

Routes == {"crud", "health", "ready"}

\* how `await call_next(request)` ends: "response" when the endpoint returned
\* or raised an HTTPException (the framework's handler below the middleware
\* answers it), "raised" when any other exception travels up through
\* call_next.  The CRUD handlers wrap every Exception in an HTTPException;
\* ready() catches asyncio.TimeoutError only, so an exception of the
\* connectivity check leaves it.
CallNextOutcomes(route) ==
    IF route = "ready" THEN {"response", "raised"} ELSE {"response"}

NewExchange ==
    [pc |-> "new", route |-> "", inbound |-> "absent", req_id |-> "", generated |-> 0,
     status |-> 0, x_request_id |-> "absent"]

\* str(uuid.uuid4()): the k-th value generated by the process
Uuid4(k) == "uuid-" \o ToString(k)

Generated == {task[r].generated : r \in Tasks} \ {0}

\* lines 46-53: take the inbound header or generate an id, then call_next
request_id_middleware(r, route, hdr) ==
    /\ task[r].pc = "new"
    /\ LET k == Cardinality(Generated) + 1
           fresh == hdr \in {"absent", ""}
       IN  task' = [task EXCEPT ![r].pc = "call_next", ![r].route = route,
                                ![r].inbound = hdr,
                                ![r].generated = IF fresh THEN k ELSE 0,
                                ![r].req_id = IF fresh THEN Uuid4(k) ELSE hdr]
    /\ UNCHANGED <<conns, executor, env, probe, backend, written, db, last, queue, worker>>

\* lines 54-59: call_next returned a response; the header is set on it
call_next_returns(r, status) ==
    /\ task[r].pc = "call_next"
    /\ "response" \in CallNextOutcomes(task[r].route)
    /\ task' = [task EXCEPT ![r].pc = "responded", ![r].status = status,
                            ![r].x_request_id = task[r].req_id]
    /\ UNCHANGED <<conns, executor, env, probe, backend, written, db, last, queue, worker>>

\* line 54 raises: lines 55-59 are skipped and the server's error handler
\* above the middleware answers 500
call_next_raises(r) ==
    /\ task[r].pc = "call_next"
    /\ "raised" \in CallNextOutcomes(task[r].route)
    /\ task' = [task EXCEPT ![r].pc = "responded", ![r].status = 500]
    /\ UNCHANGED <<conns, executor, env, probe, backend, written, db, last, queue, worker>>

Statuses == {200, 404, 500, 503}

NextHttp ==
    \/ \E r \in Tasks, route \in Routes, hdr \in InboundHeaders :
          request_id_middleware(r, route, hdr)
    \/ \E r \in Tasks, s \in Statuses : call_next_returns(r, s)
    \/ \E r \in Tasks : call_next_raises(r)

InitHttp ==
    /\ backend \in Backends
    /\ env = CompleteEnv
    /\ probe = NoProbe
    /\ conns = NoConns
    /\ executor = NoExecutor
    /\ db = [tables |-> [t \in DbTables |-> {}], items_seq |-> 1,
             autoinc |-> [t \in DbTables |-> 1]]
    /\ written = "items"
    /\ last = NoRequest
    /\ task = [r \in Tasks |-> NewExchange]
    /\ queue = <<>>
    /\ worker = [w \in Workers |-> [req |-> 0, conn |-> FALSE, last_insert_id |-> NULL]]

SpecHttp == InitHttp /\ [][NextHttp]_vars

\* C21: every response carries X-Request-ID: the inbound value when the
\* request sent a non-empty one, otherwise a value generated for that request
\* and for no other
C21_ResponseCarriesRequestId ==
    \A r \in Tasks : task[r].pc = "responded" =>
        /\ task[r].x_request_id # "absent"
        /\ task[r].inbound \notin {"absent", ""} => task[r].x_request_id = task[r].inbound
        /\ task[r].inbound \in {"absent", ""} =>
              /\ task[r].x_request_id \notin InboundHeaders
              /\ \A o \in Tasks \ {r} : task[o].req_id # task[r].x_request_id

(***************************************************************************)
(* Specification of the thread-local connection cache (_get_conn of both   *)
(* managers).  Every primitive a worker thread executes first fetches the  *)
(* thread's connection, opening it when its _local holds none.  Opening    *)
(* can fail (duckdb.connect or snowflake.connector.connect raises).        *)
(***************************************************************************)
ConnectOutcomes == {"ok", "error"}

\* operations one thread executes in a run
MaxOps == MaxCalls + 1

\* a worker thread that has run nothing: whether it executes an operation, the
\* connection that operation uses, and counts of what the thread did so far:
\* operations started, operations answered from _local, connect calls,
\* connect calls that raised
NewThread ==
    [req |-> 0, using |-> 0, ops |-> 0, hits |-> 0, connects |-> 0, failed |-> 0]

\* an attribute of the manager shared by all threads instead of _local
SharedConn(w) ==
    IF conns.opened = <<>> THEN 0 ELSE Len(conns.opened)

\* getattr(self._local, "conn", None) on thread w
LocalConn(w) == conns.local[w]

\* the cache is never written
CacheNothing(local, w, id, ok) == local

\* self._local.conn = conn: reached only when connect returned
CacheAfterConnect(local, w, id, ok) ==
    IF ok THEN [local EXCEPT ![w] = id] ELSE local

\* thread w takes a work item of run() and starts the primitive
ThreadStarts(w) ==
    /\ worker[w].req = 0
    /\ worker[w].ops < MaxOps
    /\ worker' = [worker EXCEPT ![w].req = 1, ![w].ops = @ + 1]
    /\ UNCHANGED <<conns, executor, env, probe, backend, written, db, last, task, queue>>

\* conn = self._get_conn() at the start of the primitive; when connect raises
\* the primitive ends with that exception
GetConn(w, o) ==
    LET cached == LocalConn(w)
        id == Len(conns.opened) + 1
    IN  /\ worker[w].req = 1 /\ worker[w].using = 0
        /\ IF cached # 0
           THEN /\ o = "ok"
                /\ worker' = [worker EXCEPT ![w].using = cached, ![w].hits = @ + 1]
                /\ conns' = conns
           ELSE IF o = "ok" /\ (backend = "snowflake" => SnowGetConn(env) = "")
           THEN /\ conns' = [conns EXCEPT
                                !.local = CacheAfterConnect(conns.local, w, id, TRUE),
                                !.opened = Append(@, [creator |-> w,
                                                      op |-> worker[w].ops])]
                /\ worker' = [worker EXCEPT ![w].using = id, ![w].connects = @ + 1]
           ELSE /\ conns' = [conns EXCEPT
                                !.local = CacheAfterConnect(conns.local, w, 0, FALSE)]
                /\ worker' = [worker EXCEPT ![w].req = 0, ![w].connects = @ + 1,
                                            ![w].failed = @ + 1]
        /\ UNCHANGED <<executor, env, probe, backend, written, db, last, task, queue>>

\* the statement runs on the connection and the primitive returns
Execute(w) ==
    /\ worker[w].req = 1 /\ worker[w].using # 0
    /\ worker' = [worker EXCEPT ![w].req = 0, ![w].using = 0]
    /\ UNCHANGED <<conns, executor, env, probe, backend, written, db, last, task, queue>>

NextLocal ==
    \/ \E w \in Workers : ThreadStarts(w)
    \/ \E w \in Workers, o \in ConnectOutcomes : GetConn(w, o)
    \/ \E w \in Workers : Execute(w)

InitLocal ==
    /\ backend \in Backends
    /\ env = CompleteEnv
    /\ probe = NoProbe
    /\ conns = NoConns
    /\ executor = NoExecutor
    /\ db = [tables |-> [t \in DbTables |-> {}], items_seq |-> 1,
             autoinc |-> [t \in DbTables |-> 1]]
    /\ written = "items"
    /\ last = NoRequest
    /\ task = [r \in Tasks |-> NewTask]
    /\ queue = <<>>
    /\ worker = [w \in Workers |-> NewThread]

SpecLocal == InitLocal /\ [][NextLocal]_vars

\* the connections thread w has opened
OpenedBy(w) == {i \in DOMAIN conns.opened : conns.opened[i].creator = w}

\* each thread holds at most one cached connection, which it opened itself and
\* which every operation it runs uses; running operations use different
\* connections; no more connections exist than the pool has threads
OnePerThread ==
    /\ \A w \in Workers :
          /\ Cardinality(OpenedBy(w)) <= 1
          /\ conns.local[w] # 0 => conns.local[w] \in OpenedBy(w)
          /\ worker[w].using # 0 =>
                /\ worker[w].using = conns.local[w]
                /\ worker[w].using \in OpenedBy(w)
    /\ \A w1, w2 \in Workers :
          (w1 # w2 /\ worker[w1].using # 0 /\ worker[w2].using # 0) =>
              worker[w1].using # worker[w2].using
    /\ Len(conns.opened) <= MaxWorkers

\* C22 as stated: one cached connection per worker thread, opened by the
\* thread's first operation, reused afterwards, never used by another thread,
\* never more connections than threads
C22_OpenedByFirstOperation ==
    /\ OnePerThread
    /\ \A i \in DOMAIN conns.opened : conns.opened[i].op = 1

\* C22 amended: the connection is opened by the thread's first operation whose
\* connect succeeds (the operations before it ended without a connection) and
\* is used by every later operation of the thread
C22_ThreadLocalConnections ==
    /\ OnePerThread
    /\ \A w \in Workers :
          LET ended == worker[w].ops - worker[w].req
          IN  /\ conns.local[w] = 0 => worker[w].failed = ended
              /\ conns.local[w] # 0 =>
                    /\ conns.opened[conns.local[w]].op = worker[w].failed + 1
                    /\ worker[w].hits + (IF worker[w].req = 1 /\ worker[w].using = 0
                                         THEN 1 ELSE 0)
                          = worker[w].ops - conns.opened[conns.local[w]].op

C22_Witness ==
    /\ \A w \in Workers : conns.local[w] # 0
    /\ \E w \in Workers : worker[w].failed > 0 /\ worker[w].hits > 0
    /\ \E w1, w2 \in Workers : w1 # w2 /\ worker[w1].using # 0 /\ worker[w2].using # 0

\* C29: on the warehouse backend a connect that raises leaves the thread
\* without a connection, every operation of a thread without one calls
\* connect, and after the connect that succeeds the thread keeps that
\* connection and calls connect no more
C29_FailedConnectCachesNothing ==
    backend = "snowflake" =>
        \A w \in Workers :
            /\ worker[w].connects =
                  worker[w].failed + (IF conns.local[w] # 0 THEN 1 ELSE 0)
            /\ worker[w].connects + worker[w].hits =
                  worker[w].ops - (IF worker[w].req = 1 /\ worker[w].using = 0
                                   THEN 1 ELSE 0)
            /\ worker[w].hits > 0 => conns.local[w] # 0
            /\ conns.local[w] # 0 => conns.local[w] \in OpenedBy(w)

C29_Witness ==
    /\ backend = "snowflake"
    /\ \E w \in Workers : /\ worker[w].failed > 0 /\ conns.local[w] # 0
                          /\ worker[w].hits > 0

(***************************************************************************)
(* Specification of the bounded pool and its shutdown: the manager is      *)
(* constructed with max_workers threads, client tasks await run() and      *)
(* close() shuts the executor down with wait=True.                         *)
(***************************************************************************)
\* what the operations of this specification return
SatOutcomes == {Ok(TRUE)}

\* run() after close(): submit raises RuntimeError, nothing is queued
run_after_shutdown(r, fn) ==
    /\ executor.shutdown # "open"
    /\ task[r].pc \in {"new", "resumed"}
    /\ task[r].calls < MaxCalls
    /\ task' = [task EXCEPT ![r].pc = "resumed", ![r].fn = fn, ![r].calls = @ + 1,
                            ![r].returned = Raise("cannot schedule new futures after shutdown"),
                            ![r].result = Raise("cannot schedule new futures after shutdown")]
    /\ UNCHANGED <<conns, executor, env, probe, backend, written, db, last, queue, worker>>

\* the calls waiting in the queue or executing on a thread
InFlight == {<<r, task[r].calls>> : r \in {x \in Tasks : task[x].pc \in {"queued", "running"}}}

\* close() is called: self._executor.shutdown(wait=True) begins
close ==
    /\ executor.shutdown = "open"
    /\ executor' = [executor EXCEPT !.shutdown = "draining", !.at_close = InFlight]
    /\ UNCHANGED <<conns, env, probe, backend, written, db, last, pool>>

\* shutdown(wait=False): nothing is waited for
DrainNoWait == TRUE

\* every thread has been joined: the queue is empty and no thread is executing
DrainDone == queue = <<>> /\ \A w \in PoolThreads : worker[w].req = 0

\* close() returns
close_returns ==
    /\ executor.shutdown = "draining"
    /\ DrainDone
    /\ executor' = [executor EXCEPT !.shutdown = "closed"]
    /\ UNCHANGED <<conns, env, probe, backend, written, db, last, pool>>

NextSat ==
    \/ \E r \in Tasks, fn \in RunFns : run(r, fn)
    \/ \E r \in Tasks, fn \in RunFns : run_after_shutdown(r, fn)
    \/ \E w \in PoolThreads : RunTake(w)
    \/ \E w \in PoolThreads : \E o \in SatOutcomes : RunFinish(w, o)
    \/ \E r \in Tasks : RunAwait(r)
    \/ close
    \/ close_returns

\* DBManager(max_workers=n)
InitSat ==
    /\ backend = "duckdb"
    /\ env = CompleteEnv
    /\ probe = NoProbe
    /\ conns = NoConns
    /\ executor = NoExecutor
    /\ db = [tables |-> [t \in DbTables |-> {}], items_seq |-> 1,
             autoinc |-> [t \in DbTables |-> 1]]
    /\ written = "items"
    /\ last = NoRequest
    /\ task = [r \in Tasks |-> NewCall]
    /\ queue = <<>>
    /\ \E n \in 1..MaxWorkers :
          worker = [w \in 1..n |-> [req |-> 0, conn |-> FALSE, last_insert_id |-> NULL]]

SpecSat == InitSat /\ [][NextSat]_vars

\* threads keep taking work and the operations they execute terminate
SpecSatFair ==
    /\ SpecSat
    /\ WF_vars(\E w \in PoolThreads : RunTake(w))
    /\ WF_vars(\E w \in PoolThreads : \E o \in SatOutcomes : RunFinish(w, o))

Executing == {r \in Tasks : task[r].pc = "running"}

\* a scheduled call waits in the queue, once
Queued(r) == Cardinality({i \in DOMAIN queue : queue[i] = r}) = 1

C25_CloseDrains ==
    executor.shutdown = "closed" =>
        \A c \in executor.at_close :
            /\ task[c[1]].runs = c[2]
            /\ task[c[1]].pc \in {"set", "resumed"}
            /\ task[c[1]].calls = c[2] => task[c[1]].returned.kind = "ok"

\* close() returned after waiting for a queued call and an executing one
C25_Witness ==
    /\ executor.shutdown = "closed"
    /\ Cardinality(executor.at_close) > Cardinality(PoolThreads)

(***************************************************************************)
(* Specification of the readiness probe on a busy pool (app/health.py over *)
(* run()).  A work item is one call handed to the executor; it outlives    *)
(* the request that made it when the request stops waiting for it.         *)
(***************************************************************************)
\* requests of one run
MaxItems == NumTasks + 1

\* what an executed work item returns: True or False, both for the check and
\* for the primitive
ItemOutcomes == {"true", "false"}

\* a work item and the request that made it: its state in the executor, how
\* often it was executed, the status its request was answered with (0 while
\* the request still waits), whether its outcome reached the request, and,
\* for a check whose probe timed out, the state it was in at that moment and
\* whether every thread was busy then
NewItem(fn) ==
    [fn |-> fn, state |-> "pending", runs |-> 0, answer |-> 0, delivered |-> FALSE,
     timed_out |-> FALSE, at_timeout |-> "", saturated |-> FALSE]

\* a request hands its call to the executor and waits for it
Submit(fn) ==
    /\ Len(executor.items) < MaxItems
    /\ executor' = [executor EXCEPT !.items = Append(@, NewItem(fn))]
    /\ queue' = Append(queue, Len(executor.items) + 1)
    /\ UNCHANGED <<conns, env, probe, backend, written, db, last, task, worker>>

\* a CRUD handler awaits db_manager.<operation>(...): run() with no timeout
crud_request == Submit("_delete_item_sync")

\* GET /ready: wait_for(db.db.run(db.db.check_connection, retries, delay), timeout)
ready_request == Submit("check_connection")

\* an idle thread takes the oldest work item; a cancelled one is discarded
\* without being executed
ItemTake(w) ==
    /\ worker[w].req = 0
    /\ queue # <<>>
    /\ LET i == Head(queue)
       IN  IF executor.items[i].state = "cancelled"
           THEN UNCHANGED <<worker, executor>>
           ELSE /\ worker' = [worker EXCEPT ![w].req = i]
                /\ executor' = [executor EXCEPT !.items[i].state = "running",
                                                !.items[i].runs = @ + 1]
    /\ queue' = Tail(queue)
    /\ UNCHANGED <<conns, env, probe, backend, written, db, last, task>>

\* the status a request gets from the value of its call: ready() answers 200
\* when ok and 503 when not; delete_item answers 204 / 404
StatusOf(fn, o) ==
    IF fn = "check_connection"
    THEN IF o = "true" THEN 200 ELSE 503
    ELSE IF o = "true" THEN 204 ELSE Response(ExceptException(NotFound)).status

\* the item finishes on its thread; the request still waiting for it resumes
\* with the outcome, otherwise the outcome stays with the future nobody awaits
ItemFinish(w, o) ==
    LET i == worker[w].req
        it == executor.items[i]
        awaited == it.answer = 0
    IN  /\ i # 0 /\ it.state = "running"
        /\ executor' = [executor EXCEPT
                           !.items[i].state = "finished",
                           !.items[i].delivered = awaited,
                           !.items[i].answer = IF awaited THEN StatusOf(it.fn, o) ELSE @]
        /\ worker' = [worker EXCEPT ![w].req = 0]
        /\ UNCHANGED <<conns, env, probe, backend, written, db, last, task, queue>>

\* a timeout that cancels nothing
CancelNever(state) == state

\* a timeout that also cancels the call a thread is executing
CancelRunning(state) == "cancelled"

\* wait_for cancels the awaited future: the executor's future can be cancelled
\* only while its work item has not been started
CancelOnTimeout(state) == IF state = "pending" THEN "cancelled" ELSE state

\* the timeout of wait_for expires before the future is done: ok = False, 503
probe_timeout(i) ==
    LET it == executor.items[i]
    IN  /\ it.fn = "check_connection" /\ it.answer = 0
        /\ it.state \in {"pending", "running"}
        /\ executor' = [executor EXCEPT
                           !.items[i].state = CancelOnTimeout(it.state),
                           !.items[i].timed_out = TRUE,
                           !.items[i].at_timeout = it.state,
                           !.items[i].saturated = \A w \in PoolThreads : worker[w].req # 0,
                           !.items[i].answer = 503]
        /\ UNCHANGED <<conns, env, probe, backend, written, db, last, task, queue, worker>>

NextProbe ==
    \/ crud_request
    \/ ready_request
    \/ \E w \in PoolThreads : ItemTake(w)
    \/ \E w \in PoolThreads, o \in ItemOutcomes : ItemFinish(w, o)
    \/ \E i \in DOMAIN executor.items : probe_timeout(i)

\* DBManager(max_workers=n) with fewer threads than requests
InitProbe ==
    /\ backend = "duckdb"
    /\ env = CompleteEnv
    /\ probe = NoProbe
    /\ conns = NoConns
    /\ executor = NoExecutor
    /\ db = [tables |-> [t \in DbTables |-> {}], items_seq |-> 1,
             autoinc |-> [t \in DbTables |-> 1]]
    /\ written = "items"
    /\ last = NoRequest
    /\ task = [r \in Tasks |-> NewTask]
    /\ queue = <<>>
    /\ \E n \in 1..(NumTasks - 1) :
          worker = [w \in 1..n |-> [req |-> 0, conn |-> FALSE, last_insert_id |-> NULL]]

SpecProbe == InitProbe /\ [][NextProbe]_vars

\* threads keep taking work and the calls they execute terminate
SpecProbeFair ==
    /\ SpecProbe
    /\ WF_vars(\E w \in PoolThreads : ItemTake(w))
    /\ WF_vars(\E w \in PoolThreads, o \in ItemOutcomes : ItemFinish(w, o))

Items == DOMAIN executor.items

\* the threads executing work item i
Slots(i) == {w \in PoolThreads : worker[w].req = i}

InQueue(i) == Cardinality({k \in DOMAIN queue : queue[k] = i})

\* C24 as stated: a probe whose timeout expires before its check has finished
\* answers 503, and the check is not cancelled: it keeps a thread, and its
\* result reaches no caller
C24_TimedOutCheckNotCancelled ==
    \A i \in Items :
        executor.items[i].timed_out =>
            /\ executor.items[i].answer = 503
            /\ executor.items[i].state \in {"running", "finished"}
            /\ executor.items[i].state = "running" => Slots(i) # {}
            /\ ~executor.items[i].delivered

\* a timed-out check that a thread had started goes on: it is never cancelled,
\* holds its thread while it runs, runs once and reaches no caller; one that
\* still waited in the queue is cancelled and never executed
OrphanedOrCancelled(i) ==
    LET it == executor.items[i] IN
    it.timed_out =>
        /\ it.answer = 503 /\ ~it.delivered
        /\ it.at_timeout = "running" =>
              /\ it.state \in {"running", "finished"} /\ it.runs = 1
              /\ it.state = "running" => Cardinality(Slots(i)) = 1
        /\ it.at_timeout = "pending" =>
              /\ it.state = "cancelled" /\ it.runs = 0 /\ Slots(i) = {}

\* C24 amended: the probe answers 503; a check already started is not
\* cancelled, keeps its thread and runs to completion with its result
\* delivered to nobody; a check still queued is cancelled and never runs
C24_StartedCheckRunsOn ==
    /\ [](\A i \in Items : OrphanedOrCancelled(i))
    /\ \A i \in 1..MaxItems :
          (i \in Items /\ executor.items[i].timed_out
                       /\ executor.items[i].at_timeout = "running")
              ~> (i \in Items /\ executor.items[i].state = "finished")

\* an orphaned check has finished and another still holds its thread
C24_Witness ==
    /\ \E i \in Items : /\ executor.items[i].timed_out
                        /\ executor.items[i].at_timeout = "running"
                        /\ executor.items[i].state = "finished"
    /\ \E i \in Items : /\ executor.items[i].timed_out
                        /\ executor.items[i].state = "running"

\* the checks of probes that timed out in the queue while every thread was busy
StarvedChecks ==
    {i \in Items : /\ executor.items[i].fn = "check_connection"
                   /\ executor.items[i].timed_out
                   /\ executor.items[i].at_timeout = "pending"
                   /\ executor.items[i].saturated}

\* C28 as stated: a probe made while every thread is busy beyond the timeout
\* answers 503, and its check stays in the queue, never cancelled
C28_QueuedCheckNeverCancelled ==
    \A i \in StarvedChecks :
        /\ executor.items[i].answer = 503
        /\ executor.items[i].state # "cancelled"

\* C28 amended: such a probe answers 503 without its check having run, and
\* its check is cancelled: the work item waits in the queue until a thread
\* takes it and is then discarded, never executed
C28_QueueWaitCountsAgainstTimeout ==
    \A i \in StarvedChecks :
        /\ executor.items[i].answer = 503
        /\ executor.items[i].state = "cancelled"
        /\ executor.items[i].runs = 0 /\ ~executor.items[i].delivered
        /\ InQueue(i) <= 1
        /\ (\A w \in PoolThreads : worker[w].req # 0 /\ worker[w].req < i) => InQueue(i) = 1

\* two probes in a row starved behind the same busy thread
C28_Witness ==
    /\ Cardinality(StarvedChecks) >= 2
    /\ \A i \in StarvedChecks : InQueue(i) = 1
    /\ \A w \in PoolThreads : worker[w].req # 0

(***************************************************************************)
(* Specification of schema initialization (db.py, DBManager.__init__): the *)
(* embedded manager is constructed again over the database file while      *)
(* requests are served.                                                    *)
(***************************************************************************)
\* CREATE SEQUENCE IF NOT EXISTS items_seq START 1
CreateSequenceIfNotExists(d, exists) ==
    IF exists THEN d ELSE [d EXCEPT !.items_seq = 1]

\* CREATE TABLE IF NOT EXISTS items (...)
CreateTableIfNotExists(d, exists) ==
    IF exists THEN d ELSE [d EXCEPT !.tables["items"] = {}]

\* the schema objects exist in a database a manager was constructed over
SchemaExists(d) == "items" \in DOMAIN d.tables /\ d.items_seq >= 1

\* the DDL of __init__ on database d
DBManagerInit(d) ==
    CreateTableIfNotExists(CreateSequenceIfNotExists(d, SchemaExists(d)), SchemaExists(d))

\* conn = duckdb.connect(...); DDL; conn.close()
BootstrapConn == "closed"

\* DBManager(db_path) once more; the record remembers the id of the row a
\* Delete removed right before
reinit ==
    /\ db' = DBManagerInit(db)
    /\ conns' = [conns EXCEPT !.bootstrap = BootstrapConn]
    /\ last' = [NoRequest EXCEPT
                   !.op = "init",
                   !.table = IF last.op \in {"delete", "init"} THEN last.table ELSE "",
                   !.item_id = IF last.op = "init" \/ (last.op = "delete" /\ last.status = 204)
                               THEN last.item_id ELSE 0]
    /\ UNCHANGED <<executor, env, probe, backend, written, pool>>

NextInit ==
    \/ CreateRequest
    \/ UpdateRequest
    \/ DeleteRequest
    \/ GetRequest
    \/ reinit

InitInit == Init /\ backend = "duckdb" /\ written = "items"

SpecInit == InitInit /\ [][NextInit]_vars

\* C26: constructing the manager again changes neither the rows nor the
\* position of the id sequence and leaves the bootstrap connection closed, and
\* a Create right after it returns an id that no row holds and that the row
\* deleted right before the construction did not hold
C26_InitIdempotent ==
    [][/\ last'.op = "init" => (db' = db /\ conns'.bootstrap = "closed")
       /\ (last.op = "init" /\ last'.op = "create" /\ last'.kind = "ok") =>
             /\ last'.val.id \notin Ids(db, last'.table)
             /\ ~(last.table = last'.table /\ last.item_id = last'.val.id)]_vars

(***************************************************************************)
(* Specification of the embedded manager's filtered single-item fetch      *)
(* (db.py, fetch_item_with_where), called directly on the manager over a   *)
(* table that requests fill and empty.                                     *)
(***************************************************************************)
\* def _fetch_item_sync(self, table_name, item_id, columns=None, order_by="id")
FetchItemSyncParams == <<"table_name", "item_id", "columns", "order_by">>

\* self.run(self._fetch_item_sync, table_name, item_id, columns, order_by, where)
FetchItemWithWhereArgs == <<"table_name", "item_id", "columns", "order_by", "where">>

\* fn(*args) of run()'s lambda: more positional arguments than parameters is a
\* TypeError raised before the body runs
CallPositional(params, args, result) ==
    IF Len(args) > Len(params)
    THEN Raise("TypeError: too many positional arguments")
    ELSE result

\* fetch_item_with_where as written
FetchItemWithWhere(d, t, item_id, ob, where, fault) ==
    CallPositional(FetchItemSyncParams, FetchItemWithWhereArgs,
                   FetchItemSync(d, t, item_id, ob, fault))

\* the filters a caller passes for table t: none, or the table's configured one
WhereParams(t) == {"", DictGet(ConfigGet(t), "where", "")}

\* await db.fetch_item_with_where(t, item_id, None, order_by, where)
fetch_item_with_where(t, item_id, ob, where, fault) ==
    LET r == FetchItemWithWhere(db, t, item_id, ob, where, fault)
    IN  /\ last' = [op |-> "fetch_item_with_where", table |-> t, item_id |-> item_id,
                    order_by |-> ob, where |-> where, fault |-> fault,
                    kind |-> r.kind, val |-> r.val, msg |-> r.msg]
        /\ UNCHANGED <<conns, executor, env, probe, backend, written, db, pool>>

NextFetch ==
    \/ CreateRequest
    \/ DeleteRequest
    \/ \E t \in Addressed, i \in 1..MaxCallerId, ob \in OrderByParams :
          \E where \in WhereParams(t) : fetch_item_with_where(t, i, ob, where, "none")
    \/ fetch_item_with_where(FaultTable, 1, "id", "", "error")

InitFetch == Init /\ backend = "duckdb"

SpecFetch == InitFetch /\ [][NextFetch]_vars

\* C27: fetch_item_with_where returns the row with the given id that passes
\* the filter, None when there is no such row, and raises only when the
\* database operation itself fails
C27_FetchItemWithWhere ==
    last.op = "fetch_item_with_where" =>
        LET fails == last.fault = "error" \/ SelectError(last.table, last.order_by) # ""
            hit == IF last.table \in DbTables
                   THEN {r \in db.tables[last.table] :
                            r.id = last.item_id /\ Satisfies(r, last.where)}
                   ELSE {}
        IN  /\ last.kind = "exc" <=> fails
            /\ ~fails =>
                  /\ hit # {} => (last.kind = "ok" /\ last.val \in hit)
                  /\ hit = {} => last.kind = "none"

====
